---- MODULE Spec2Model ----
(***************************************************************************)
(* Model of the ts-rest adapter of @webstir-io/module-contract             *)
(* (src/src/adapters/ts-rest.ts): response selection, response schema      *)
(* extraction, schema name synthesis and route adaptation.                 *)
(*                                                                         *)
(* JavaScript values are tagged records ([t |-> "undefined"], "number",    *)
(* "string", "symbol", "zod", "object").  A plain object carries its own   *)
(* properties as a function `props` whose DOMAIN is the set of its keys,   *)
(* so "key absent" and "key present with value undefined" are different.   *)
(* The object literals that the adapter itself builds (RouteSpec,          *)
(* definition, schemas, input, output, schema references) are TLA+ records *)
(* whose DOMAIN is the set of keys of the literal.  Strings that the code  *)
(* takes apart (names, status keys) are sequences of one-character         *)
(* strings.                                                                *)
(***************************************************************************)
EXTENDS Integers, Sequences, FiniteSets, TLC

\* options:  the argument of fromTsRestRoute, the route contract included
\* selected: what selectResponse returned to fromTsRestRoute (its locals
\*           derivedStatus and routeResponse)
\* result:   what fromTsRestRoute returned, or the exception it raised
\* pc:       "declaring" before the call, then "returned" or "raised"
\* extracted: what extractResponseSchema returned to fromTsRestRoute (its
\*           local baseResponseSchema)
\* walk:     the call of fromTsRestRouter: its arguments, the stack of visit
\*           frames, the createRoute calls made and the specs pushed so far
\* script:   the run of scripts/publish.sh
\* heap:     the arrays and the response map a call works on, by address, for
\*           the calls that are followed down to what they write
VARIABLES options, selected, result, pc, extracted, walk, script, heap

vars == <<options, selected, result, pc, extracted, walk, script, heap>>

\* A part of the package that is not running.
Idle == [pc |-> "idle"]

(***************************************************************************)
(* Bounds of the model.                                                    *)
(***************************************************************************)
\* The number of fields a caller populates on the route contract and options.
MaxFields == 3

\* The status codes a route may declare in its response map.
StatusUniverse == {100, 200, 201, 204, 404, 500}

\* The route names a caller passes.
Names == { <<"g", "e", "t", " ", "a", "c", "c", "o", "u", "n", "t">> }

(***************************************************************************)
(* JavaScript values.                                                      *)
(***************************************************************************)
Undefined == [t |-> "undefined"]

Num(n) == [t |-> "number", v |-> n]

Str(s) == [t |-> "string", v |-> s]

Obj(props) == [t |-> "object", props |-> props]

\* A schema object of the zod library; src and key tell where it was declared.
Zod(src, key) == [t |-> "zod", src |-> src, key |-> key]

\* ContractNoBody of @ts-rest/core: a unique symbol.
ContractNoBody == [t |-> "symbol", description |-> "ts-rest-no-body"]

\* An uncaught exception leaving a function.
Throw(error) == [t |-> "throw", error |-> error]

IsThrow(value) == "t" \in DOMAIN value /\ value.t = "throw"

\* The nullish-coalescing operator a ?? b.
Coalesce(a, b) == IF a = Undefined THEN b ELSE a

\* ToBoolean: of the values of the model only undefined is falsy.
Truthy(value) == value # Undefined

\* key in value, for an object.
HasProperty(value, key) == value.t = "object" /\ key \in DOMAIN value.props

\* value[key]: undefined when the key is absent.
GetProperty(value, key) ==
    IF HasProperty(value, key) THEN value.props[key] ELSE Undefined

\* record.key of a record the adapter built (destructuring included).
Field(record, key) == IF key \in DOMAIN record THEN record[key] ELSE Undefined

(***************************************************************************)
(* Status keys: property keys are strings; Number.parseInt reads them and  *)
(* a property access with a number writes the number as a string again.    *)
(***************************************************************************)
DigitChars == <<"0", "1", "2", "3", "4", "5", "6", "7", "8", "9">>

DigitValue(c) == (CHOOSE i \in 1..10 : DigitChars[i] = c) - 1

IsDigit(c) == \E i \in 1..10 : DigitChars[i] = c

RECURSIVE ParseDigits(_, _)
ParseDigits(s, acc) ==
    IF s = <<>> \/ ~IsDigit(Head(s)) THEN acc
    ELSE ParseDigits(Tail(s), acc * 10 + DigitValue(Head(s)))

\* Number.parseInt(s, 10) of a string that starts with a digit.
ParseInt(s) == ParseDigits(s, 0)

RECURSIVE NumberToString(_)
NumberToString(n) ==
    IF n < 10 THEN <<DigitChars[n + 1]>>
    ELSE NumberToString(n \div 10) \o <<DigitChars[(n % 10) + 1]>>

RECURSIVE KeysInOrder(_)
KeysInOrder(keys) ==
    IF keys = {} THEN <<>>
    ELSE LET first == CHOOSE k \in keys : \A other \in keys : ParseInt(k) <= ParseInt(other)
         IN <<first>> \o KeysInOrder(keys \ {first})

\* Object.keys(object): integer keys come in ascending numeric order.
ObjectKeys(object) == KeysInOrder(DOMAIN object.props)

RECURSIVE Insert(_, _)
Insert(sorted, n) ==
    IF sorted = <<>> THEN <<n>>
    ELSE IF n - Head(sorted) < 0 THEN <<n>> \o sorted
    ELSE <<Head(sorted)>> \o Insert(Tail(sorted), n)

RECURSIVE SortNumbers(_)
SortNumbers(s) ==
    IF s = <<>> THEN <<>> ELSE Insert(SortNumbers(Tail(s)), Head(s))

\* array.find(predicate) for the predicate "is an element of codes".
RECURSIVE FindIn(_, _)
FindIn(s, codes) ==
    IF s = <<>> THEN Undefined
    ELSE IF Head(s) \in codes THEN Num(Head(s))
    ELSE FindIn(Tail(s), codes)

(***************************************************************************)
(* ts-rest.ts                                                              *)
(***************************************************************************)
DEFAULT_SUCCESS_CODES == {200, 201, 202, 204}

noopResponseSchema == Zod("z.void", <<>>)

isNonEmpty(value) == value.t = "array" /\ Len(value.items) > 0

IsAlnum(c) ==
    c \in {"a", "b", "c", "d", "e", "f", "g", "h", "i", "j", "k", "l", "m",
           "n", "o", "p", "q", "r", "s", "t", "u", "v", "w", "x", "y", "z",
           "A", "B", "C", "D", "E", "F", "G", "H", "I", "J", "K", "L", "M",
           "N", "O", "P", "Q", "R", "S", "T", "U", "V", "W", "X", "Y", "Z",
           "0", "1", "2", "3", "4", "5", "6", "7", "8", "9"}

RECURSIVE ReplaceRuns(_, _)
ReplaceRuns(raw, inRun) ==
    IF raw = <<>> THEN <<>>
    ELSE IF IsAlnum(Head(raw)) THEN <<Head(raw)>> \o ReplaceRuns(Tail(raw), FALSE)
    ELSE IF inRun THEN ReplaceRuns(Tail(raw), TRUE)
    ELSE <<"_">> \o ReplaceRuns(Tail(raw), TRUE)

\* sanitizeSchemaBase with the regular expression /[^A-Za-z0-9]/g (no +):
\* every character outside the class becomes a separator of its own.
sanitizeSchemaBase_EachChar(raw) ==
    [i \in 1..Len(raw) |-> IF IsAlnum(raw[i]) THEN raw[i] ELSE "_"]

sanitizeSchemaBase(raw) == ReplaceRuns(raw, FALSE)

LowerChars == <<"a", "b", "c", "d", "e", "f", "g", "h", "i", "j", "k", "l", "m",
                "n", "o", "p", "q", "r", "s", "t", "u", "v", "w", "x", "y", "z">>

UpperChars == <<"A", "B", "C", "D", "E", "F", "G", "H", "I", "J", "K", "L", "M",
                "N", "O", "P", "Q", "R", "S", "T", "U", "V", "W", "X", "Y", "Z">>

ToUpperCase(c) ==
    IF \E i \in 1..26 : LowerChars[i] = c
    THEN UpperChars[CHOOSE i \in 1..26 : LowerChars[i] = c]
    ELSE c

capitalize(value) ==
    IF Len(value) = 0 THEN value ELSE <<ToUpperCase(value[1])>> \o Tail(value)

SlotWord(slot) ==
    CASE slot = "params" -> <<"p", "a", "r", "a", "m", "s">>
      [] slot = "query" -> <<"q", "u", "e", "r", "y">>
      [] slot = "body" -> <<"b", "o", "d", "y">>
      [] slot = "headers" -> <<"h", "e", "a", "d", "e", "r", "s">>
      [] slot = "response" -> <<"r", "e", "s", "p", "o", "n", "s", "e">>

SchemaSlots == {"params", "query", "body", "headers", "response"}

InputSlots == {"params", "query", "body", "headers"}

\* A reference named by the base alone, whatever the slot.
SchemaReference_BaseOnly(safeBase, slot) == [kind |-> "zod", name |-> safeBase]

SchemaReference(safeBase, slot) ==
    [kind |-> "zod", name |-> safeBase \o capitalize(SlotWord(slot))]

\* names starts empty and gets a key for each slot whose schema is truthy.
buildSchemaNames(baseName, schemas) ==
    LET safeBase == sanitizeSchemaBase(baseName)
        present == {slot \in SchemaSlots : Truthy(Field(schemas, slot))}
    IN [slot \in present |-> SchemaReference(safeBase, slot)]

\* selectResponse without the success set: the smallest status when none is preferred.
selectResponse_SmallestOnly(route, preferred) ==
    IF route.responses.t # "object" THEN Throw("TypeError")
    ELSE
    LET keys == ObjectKeys(route.responses)
        statusCodes == [i \in 1..Len(keys) |-> ParseInt(keys[i])]
    IN IF Len(statusCodes) = 0 THEN [response |-> Undefined]
       ELSE LET ordered == SortNumbers(statusCodes)
                status == Coalesce(preferred, Num(ordered[1]))
            IN [status |-> status,
                response |-> GetProperty(route.responses, NumberToString(status.v))]

\* selectResponse with the success set tried before the preferred status.
selectResponse_SuccessFirst(route, preferred) ==
    IF route.responses.t # "object" THEN Throw("TypeError")
    ELSE
    LET keys == ObjectKeys(route.responses)
        statusCodes == [i \in 1..Len(keys) |-> ParseInt(keys[i])]
    IN IF Len(statusCodes) = 0 THEN [response |-> Undefined]
       ELSE LET ordered == SortNumbers(statusCodes)
                preferredStatus == Coalesce(FindIn(ordered, DEFAULT_SUCCESS_CODES), preferred)
                status == Coalesce(preferredStatus, Num(ordered[1]))
            IN [status |-> status,
                response |-> GetProperty(route.responses, NumberToString(status.v))]

\* selectResponse without the early return for an empty response map.
selectResponse_NoEmptyGuard(route, preferred) ==
    IF route.responses.t # "object" THEN Throw("TypeError")
    ELSE
    LET keys == ObjectKeys(route.responses)
        statusCodes == [i \in 1..Len(keys) |-> ParseInt(keys[i])]
        ordered == SortNumbers(statusCodes)
        preferredStatus == Coalesce(preferred, FindIn(ordered, DEFAULT_SUCCESS_CODES))
        status == Coalesce(preferredStatus, IF Len(ordered) = 0 THEN Undefined ELSE Num(ordered[1]))
    IN [status |-> status,
        response |-> IF status = Undefined THEN Undefined
                     ELSE GetProperty(route.responses, NumberToString(status.v))]

selectResponse(route, preferred) ==
    IF route.responses.t # "object" THEN Throw("TypeError")
    ELSE
    LET keys == ObjectKeys(route.responses)
        statusCodes == [i \in 1..Len(keys) |-> ParseInt(keys[i])]
    IN IF Len(statusCodes) = 0 THEN [response |-> Undefined]
       ELSE LET ordered == SortNumbers(statusCodes)
                preferredStatus == Coalesce(preferred, FindIn(ordered, DEFAULT_SUCCESS_CODES))
                status == Coalesce(preferredStatus, Num(ordered[1]))
            IN [status |-> status,
                response |-> GetProperty(route.responses, NumberToString(status.v))]

\* isZodType of @ts-rest/core.
isZodType(value) == value.t = "zod"

toZod(value) ==
    IF ~Truthy(value) THEN Undefined
    ELSE IF isZodType(value) THEN value
    ELSE IF value.t = "object" /\ HasProperty(value, "body") /\ isZodType(value.props["body"])
         THEN value.props["body"]
    ELSE Undefined

\* isAppRouteNoBody of @ts-rest/core.
isAppRouteNoBody(response) == response = ContractNoBody

\* isAppRouteOtherResponse of @ts-rest/core.
isAppRouteOtherResponse(response) ==
    response.t = "object" /\ HasProperty(response, "contentType")

\* isAppRouteMutation of @ts-rest/core.
isAppRouteMutation(route) == route.method # "GET"

\* extractResponseSchema answering the void schema for a no-body response.
extractResponseSchema_NoBodyAsVoid(response) ==
    IF ~Truthy(response) THEN Undefined
    ELSE IF response = ContractNoBody \/ isAppRouteNoBody(response) THEN noopResponseSchema
    ELSE IF isAppRouteOtherResponse(response) THEN toZod(GetProperty(response, "body"))
    ELSE toZod(response)

extractResponseSchema(response) ==
    IF ~Truthy(response) THEN Undefined
    ELSE IF response = ContractNoBody \/ isAppRouteNoBody(response) THEN Undefined
    ELSE IF isAppRouteOtherResponse(response) THEN toZod(GetProperty(response, "body"))
    ELSE toZod(response)

CopyArray(value) == [t |-> "array", items |-> value.items]

\* resolveInputSchemas taking the body of the route whatever its method.
resolveInputSchemas_BodyAlways(opts) ==
    LET route == opts.appRoute
    IN [params |-> Coalesce(opts.paramsSchema, toZod(route.pathParams)),
        query |-> Coalesce(opts.querySchema, toZod(route.query)),
        body |-> Coalesce(opts.bodySchema, toZod(route.body)),
        headers |-> Coalesce(opts.headersSchema, toZod(route.headers))]

\* The schemas of the four input slots (ts-rest.ts lines 190-194).
resolveInputSchemas(opts) ==
    LET route == opts.appRoute
        resolvedParamsSchema == Coalesce(opts.paramsSchema, toZod(route.pathParams))
        resolvedQuerySchema == Coalesce(opts.querySchema, toZod(route.query))
        resolvedHeadersSchema == Coalesce(opts.headersSchema, toZod(route.headers))
        mutationBodySchema == IF isAppRouteMutation(route) THEN toZod(route.body) ELSE Undefined
        resolvedBodySchema == Coalesce(opts.bodySchema, mutationBodySchema)
    IN [params |-> resolvedParamsSchema,
        query |-> resolvedQuerySchema,
        body |-> resolvedBodySchema,
        headers |-> resolvedHeadersSchema]

\* resolveResponseSchema without the void default.
resolveResponseSchema_NoDefault(opts, routeResponse) ==
    Coalesce(opts.responseSchema, extractResponseSchema(routeResponse))

\* The schema of the response slot (lines 197-198).
resolveResponseSchema(opts, routeResponse) ==
    LET baseResponseSchema == extractResponseSchema(routeResponse)
    IN Coalesce(opts.responseSchema, Coalesce(baseResponseSchema, noopResponseSchema))

\* definitionInputOf without the hasInput test.
definitionInputOf_Always(schemaNames) ==
    [params |-> Field(schemaNames, "params"),
     query |-> Field(schemaNames, "query"),
     body |-> Field(schemaNames, "body"),
     headers |-> Field(schemaNames, "headers")]

\* definition.input (lines 208-215 and 225-232).
definitionInputOf(schemaNames) ==
    LET definitionInput == [params |-> Field(schemaNames, "params"),
                            query |-> Field(schemaNames, "query"),
                            body |-> Field(schemaNames, "body"),
                            headers |-> Field(schemaNames, "headers")]
        hasInput == \E key \in DOMAIN definitionInput : definitionInput[key] # Undefined
    IN IF hasInput
       THEN [params |-> Field(schemaNames, "params"),
             query |-> Field(schemaNames, "query"),
             body |-> Field(schemaNames, "body"),
             headers |-> Field(schemaNames, "headers")]
       ELSE Undefined

\* definition.output (lines 233-238).
definitionOutputOf(schemaNames, derivedStatus) ==
    IF Truthy(Field(schemaNames, "response"))
    THEN [body |-> Field(schemaNames, "response"), status |-> derivedStatus]
    ELSE Undefined

\* The rest of fromTsRestRoute once selectResponse has returned `selection`;
\* sanitizeSchemaBase raises a TypeError when neither schemaBaseName nor name
\* is a string.
routeSpecOf(opts, selection) ==
    LET route == opts.appRoute
        inputSchemas == resolveInputSchemas(opts)
        derivedStatus == Field(selection, "status")
        routeResponse == Field(selection, "response")
        resolvedResponseSchema == resolveResponseSchema(opts, routeResponse)
        base == Coalesce(opts.schemaBaseName, opts.name)
        schemaNames ==
            buildSchemaNames(base.v,
                             [params |-> inputSchemas.params,
                              query |-> inputSchemas.query,
                              body |-> inputSchemas.body,
                              headers |-> inputSchemas.headers,
                              response |-> resolvedResponseSchema])
    IN IF base.t # "string" THEN Throw("TypeError")   \* raw.replace of undefined
       ELSE
       [definition |->
           [name |-> opts.name,
            method |-> route.method,
            path |-> route.path,
            summary |-> Coalesce(opts.summary, route.summary),
            description |-> Coalesce(opts.description, route.description),
            tags |-> IF isNonEmpty(opts.tags) THEN CopyArray(opts.tags) ELSE Undefined,
            input |-> definitionInputOf(schemaNames),
            output |-> definitionOutputOf(schemaNames, derivedStatus),
            errors |-> IF isNonEmpty(opts.errors) THEN CopyArray(opts.errors) ELSE Undefined],
        schemas |->
           [params |-> inputSchemas.params,
            query |-> inputSchemas.query,
            body |-> inputSchemas.body,
            headers |-> inputSchemas.headers,
            response |-> resolvedResponseSchema,
            errors |-> opts.errorSchemas],
        handler |-> opts.handler]

\* An exception of selectResponse is not caught and leaves fromTsRestRoute.
fromTsRestRoute(opts) ==
    LET selection == selectResponse(opts.appRoute, opts.successStatus)
    IN IF IsThrow(selection) THEN selection ELSE routeSpecOf(opts, selection)

(***************************************************************************)
(* The caller: it declares a route contract and the options field by       *)
(* field, then calls fromTsRestRoute once.                                 *)
(***************************************************************************)
RouteSlots == {"pathParams", "query", "body", "headers"}

SlotShapes == {"schema", "wrapped", "opaque"}

ResponseShapes == {"schema", "noBody", "other"}

OverrideKeys == {"paramsSchema", "querySchema", "bodySchema", "headersSchema", "responseSchema"}

\* What a caller may put in a schema slot of the route: a schema, an object
\* wrapping a schema in body, an object whose body is no schema.
SlotShape(slot, shape) ==
    CASE shape = "schema" -> Zod(slot, <<>>)
      [] shape = "wrapped" -> Obj([body |-> Zod(slot, <<"b", "o", "d", "y">>)])
      [] shape = "opaque" -> Obj([body |-> Str(<<"x">>)])

\* What a caller may declare as the response of a status: a schema, the
\* no-body marker, a response with a content type and a body schema.
ResponseShape(key, shape) ==
    CASE shape = "schema" -> Zod("responses", key)
      [] shape = "noBody" -> ContractNoBody
      [] shape = "other" -> Obj([contentType |-> Str(<<"t">>), body |-> Zod("responses.body", key)])

EmptyObject == Obj(<<>>)

InitialRoute ==
    [method |-> "GET", path |-> "/accounts", summary |-> Undefined, description |-> Undefined,
     pathParams |-> Undefined, query |-> Undefined, body |-> Undefined, headers |-> Undefined,
     responses |-> EmptyObject]

InitialOptions(name) ==
    [appRoute |-> InitialRoute, name |-> Str(name), summary |-> Undefined,
     description |-> Undefined, tags |-> Undefined, schemaBaseName |-> Undefined,
     successStatus |-> Undefined, errors |-> Undefined, errorSchemas |-> Undefined,
     handler |-> [t |-> "function"], paramsSchema |-> Undefined, querySchema |-> Undefined,
     bodySchema |-> Undefined, headersSchema |-> Undefined, responseSchema |-> Undefined]

DeclaredResponses(route) ==
    IF route.responses.t = "object" THEN Cardinality(DOMAIN route.responses.props) ELSE 1

\* The number of fields the caller has populated so far.
Populated ==
    Cardinality({slot \in RouteSlots : options.appRoute[slot] # Undefined})
    + Cardinality({key \in OverrideKeys : options[key] # Undefined})
    + DeclaredResponses(options.appRoute)
    + (IF options.appRoute.method # "GET" THEN 1 ELSE 0)
    + (IF options.successStatus # Undefined THEN 1 ELSE 0)

CanDeclare == pc = "declaring" /\ Populated < MaxFields

Init ==
    /\ \E name \in Names : options = InitialOptions(name)
    /\ selected = Undefined
    /\ result = Undefined
    /\ pc = "declaring"
    /\ extracted = Undefined
    /\ walk = Idle
    /\ script = Idle
    /\ heap = <<>>

DeclareSlot(slot, shape) ==
    /\ CanDeclare
    /\ options.appRoute[slot] = Undefined
    /\ options' = [options EXCEPT !.appRoute[slot] = SlotShape(slot, shape)]
    /\ UNCHANGED <<selected, result, pc, extracted, walk, script, heap>>

DeclareMutation ==
    /\ CanDeclare
    /\ options.appRoute.method = "GET"
    /\ options' = [options EXCEPT !.appRoute.method = "POST"]
    /\ UNCHANGED <<selected, result, pc, extracted, walk, script, heap>>

DeclareResponse(code, shape) ==
    LET key == NumberToString(code)
        responses == options.appRoute.responses
    IN /\ CanDeclare
       /\ responses.t = "object"
       /\ key \notin DOMAIN responses.props
       /\ options' = [options EXCEPT !.appRoute.responses =
                          Obj([k \in DOMAIN responses.props \cup {key} |->
                                  IF k = key THEN ResponseShape(key, shape)
                                  ELSE responses.props[k]])]
       /\ UNCHANGED <<selected, result, pc, extracted, walk, script, heap>>

OmitResponses ==
    /\ CanDeclare
    /\ options.appRoute.responses = EmptyObject
    /\ options' = [options EXCEPT !.appRoute.responses = Undefined]
    /\ UNCHANGED <<selected, result, pc, extracted, walk, script, heap>>

SupplySchema(key) ==
    /\ CanDeclare
    /\ options[key] = Undefined
    /\ options' = [options EXCEPT ![key] = Zod(key, <<>>)]
    /\ UNCHANGED <<selected, result, pc, extracted, walk, script, heap>>

SupplySuccessStatus(code) ==
    /\ CanDeclare
    /\ options.successStatus = Undefined
    /\ options' = [options EXCEPT !.successStatus = Num(code)]
    /\ UNCHANGED <<selected, result, pc, extracted, walk, script, heap>>

Adapt ==
    /\ pc = "declaring"
    /\ selected' = selectResponse(options.appRoute, options.successStatus)
    /\ result' = fromTsRestRoute(options)
    /\ extracted' =
           IF IsThrow(selected') THEN Undefined
           ELSE extractResponseSchema(Field(selected', "response"))
    /\ pc' = IF IsThrow(result') THEN "raised" ELSE "returned"
    /\ UNCHANGED <<options, walk, script, heap>>

Next ==
    \/ \E slot \in RouteSlots, shape \in SlotShapes : DeclareSlot(slot, shape)
    \/ DeclareMutation
    \/ \E code \in StatusUniverse, shape \in ResponseShapes : DeclareResponse(code, shape)
    \/ OmitResponses
    \/ \E key \in OverrideKeys : SupplySchema(key)
    \/ \E code \in StatusUniverse : SupplySuccessStatus(code)
    \/ Adapt

Spec == Init /\ [][Next]_vars

(***************************************************************************)
(* Properties of response selection.                                       *)
(***************************************************************************)
Returned == pc = "returned"

HasResponseMap == options.appRoute.responses.t = "object"

\* The status codes the route declares.
DeclaredCodes ==
    IF HasResponseMap
    THEN {ParseInt(k) : k \in DOMAIN options.appRoute.responses.props}
    ELSE {}

\* The response the route declares for a status code.
DeclaredResponse(code) ==
    LET props == options.appRoute.responses.props
    IN props[CHOOSE k \in DOMAIN props : ParseInt(k) = code]

MinOf(S) == CHOOSE x \in S : \A y \in S : x <= y

\* The status the specification picks when no preferred status applies.
FallbackStatus ==
    LET success == DeclaredCodes \cap {200, 201, 202, 204}
    IN IF success # {} THEN MinOf(success) ELSE MinOf(DeclaredCodes)

SelectedIs(code) ==
    /\ Field(selected, "status") = Num(code)
    /\ Field(selected, "response") = DeclaredResponse(code)

\* C1: with no preferred status and a non-empty response map, selectResponse
\* picks the smallest declared status of {200, 201, 202, 204}, else the
\* smallest declared status, and returns the map entry of the picked status.
C1_DefaultSelection ==
    (Returned /\ options.successStatus = Undefined /\ DeclaredCodes # {})
        => SelectedIs(FallbackStatus)

C1_Witness ==
    /\ Returned
    /\ options.successStatus = Undefined
    /\ DeclaredCodes = {200, 201, 404}
    /\ selected.status = Num(200)

\* C2: with a preferred status that is not a key of the non-empty response
\* map, selectResponse selects as if none had been supplied, so the selected
\* status is a key of the map and the selected response is defined.
C2_AbsentPreferredFallsBack ==
    (Returned /\ options.successStatus # Undefined /\ DeclaredCodes # {}
        /\ options.successStatus.v \notin DeclaredCodes)
        => /\ SelectedIs(FallbackStatus)
           /\ selected.status.v \in DeclaredCodes
           /\ selected.response # Undefined

\* C3: a preferred status that is a key of the response map is returned with
\* its response, whatever else the map holds.
C3_PreferredPresent ==
    (Returned /\ options.successStatus # Undefined
        /\ options.successStatus.v \in DeclaredCodes)
        => SelectedIs(options.successStatus.v)

C3_Witness ==
    /\ Returned
    /\ DeclaredCodes = {200, 404}
    /\ options.successStatus = Num(404)
    /\ selected.status = Num(404)
    /\ selected.response = DeclaredResponse(404)

\* C4: for an empty response map selectResponse selects neither a status nor
\* a response, with or without a preferred status.
C4_EmptyMapSelectsNothing ==
    (Returned /\ DeclaredCodes = {})
        => /\ Field(selected, "status") = Undefined
           /\ Field(selected, "response") = Undefined

C4_Witness ==
    /\ Returned
    /\ DeclaredCodes = {}
    /\ options.successStatus = Num(200)
    /\ Field(selected, "status") = Undefined

(***************************************************************************)
(* Properties of route adaptation.                                         *)
(***************************************************************************)
\* C5: for an empty response map and no responseSchema override,
\* schemas.response is the void default schema and definition.output is
\* absent.
C5_EmptyMapNoOutput ==
    (Returned /\ DeclaredCodes = {} /\ options.responseSchema = Undefined)
        => /\ result.schemas.response = noopResponseSchema
           /\ result.definition.output = Undefined

\* The schema a declared response carries: the response itself when it is a
\* schema, its body when it has a content type and a body schema.
SchemaOfResponse(response) ==
    CASE response.t = "zod" -> response
      [] response.t = "object" /\ "contentType" \in DOMAIN response.props
             /\ response.props["body"].t = "zod" -> response.props["body"]
      [] OTHER -> Undefined

\* C6: schemas.response is never absent: it is the responseSchema override
\* when supplied, else the schema extracted from the selected response, else
\* the void default schema.
C6_ResponseSchemaDefined ==
    Returned =>
        LET carried == SchemaOfResponse(Field(selected, "response"))
        IN /\ "response" \in DOMAIN result.schemas
           /\ result.schemas.response.t = "zod"
           /\ result.schemas.response =
                  (IF options.responseSchema # Undefined THEN options.responseSchema
                   ELSE IF carried # Undefined THEN carried
                   ELSE noopResponseSchema)

C6_Witness ==
    /\ Returned
    /\ options.responseSchema = Undefined
    /\ Field(selected, "status") = Num(204)
    /\ Field(selected, "response") = ContractNoBody
    /\ result.schemas.response = noopResponseSchema

\* The override option and the route field of each input slot.
OverrideOf(slot) ==
    CASE slot = "params" -> options.paramsSchema
      [] slot = "query" -> options.querySchema
      [] slot = "body" -> options.bodySchema
      [] slot = "headers" -> options.headersSchema

RouteValueOf(slot) ==
    CASE slot = "params" -> options.appRoute.pathParams
      [] slot = "query" -> options.appRoute.query
      [] slot = "body" -> options.appRoute.body
      [] slot = "headers" -> options.appRoute.headers

\* The schema a route field carries: the field when it is a schema, the
\* schema in its body when it wraps one.
SchemaOfRouteValue(value) ==
    CASE value.t = "zod" -> value
      [] value.t = "object" /\ "body" \in DOMAIN value.props
             /\ value.props["body"].t = "zod" -> value.props["body"]
      [] OTHER -> Undefined

\* The schema the route contributes to a slot: body only for a mutation.
RouteDerived(slot) ==
    IF slot = "body" /\ options.appRoute.method = "GET" THEN Undefined
    ELSE SchemaOfRouteValue(RouteValueOf(slot))

Unresolved(slot) == OverrideOf(slot) = Undefined /\ RouteDerived(slot) = Undefined

\* C7: fromTsRestRoute never raises: every call returns a RouteSpec, and in
\* it no unresolved slot has a schema or a reference.
C7_NeverRaises ==
    /\ pc # "raised"
    /\ Returned =>
          \A slot \in InputSlots :
              Unresolved(slot) =>
                  /\ Field(result.schemas, slot) = Undefined
                  /\ \/ result.definition.input = Undefined
                     \/ Field(result.definition.input, slot) = Undefined

\* C8: a slot with neither an override nor a route-derived schema is no key
\* of schemas and no key of definition.input.
C8_AbsentSlotIsNoKey ==
    Returned =>
        \A slot \in InputSlots :
            Unresolved(slot) =>
                /\ slot \notin DOMAIN result.schemas
                /\ \/ result.definition.input = Undefined
                   \/ slot \notin DOMAIN result.definition.input

\* C9: the definition has an input exactly when one of the four input slots
\* has a schema, and then the input holds at least one reference.
C9_InputIffReference ==
    Returned =>
        LET input == result.definition.input
        IN /\ (input # Undefined)
                 <=> (\E slot \in InputSlots : result.schemas[slot] # Undefined)
           /\ (input # Undefined)
                 => (\E slot \in InputSlots : Field(input, slot) # Undefined)

C9_Witness ==
    /\ Returned
    /\ result.schemas.query # Undefined
    /\ result.schemas.params = Undefined
    /\ result.definition.input # Undefined
    /\ result.definition.input.query # Undefined

\* C10: each input slot resolves to its override when supplied, else to the
\* schema of the route (body only for a mutation route), else to nothing.
C10_ResolutionOrder ==
    Returned =>
        \A slot \in InputSlots :
            result.schemas[slot] =
                (IF OverrideOf(slot) # Undefined THEN OverrideOf(slot)
                 ELSE RouteDerived(slot))

C10_Witness ==
    /\ Returned
    /\ options.appRoute.method = "GET"
    /\ options.appRoute.body.t = "zod"
    /\ options.bodySchema = Undefined
    /\ options.querySchema # Undefined
    /\ options.appRoute.query.t = "zod"
    /\ result.schemas.body = Undefined
    /\ result.schemas.query = options.querySchema

(***************************************************************************)
(* Schema name synthesis: the caller passes a name or a schemaBaseName     *)
(* drawn from the strings over a small alphabet, supplies schemas for some *)
(* slots and calls fromTsRestRoute.                                        *)
(***************************************************************************)
\* The length of a name the caller passes.
MaxNameLen == 3

\* A lower-case letter, an upper-case letter, a digit and two characters
\* outside [A-Za-z0-9].
NameAlphabet == {"a", "Z", "7", " ", "_"}

NameStrings == UNION {[1..n -> NameAlphabet] : n \in 0..MaxNameLen}

InitNames ==
    /\ \E raw \in NameStrings \cup Names, name \in Names, asSchemaBaseName \in BOOLEAN :
           options = IF asSchemaBaseName
                     THEN [InitialOptions(name) EXCEPT !.schemaBaseName = Str(raw)]
                     ELSE InitialOptions(raw)
    /\ selected = Undefined
    /\ result = Undefined
    /\ pc = "declaring"
    /\ extracted = Undefined
    /\ walk = Idle
    /\ script = Idle
    /\ heap = <<>>

NextNames ==
    \/ \E key \in OverrideKeys : SupplySchema(key)
    \/ Adapt

SpecNames == InitNames /\ [][NextNames]_vars

\* The base of the reference names: schemaBaseName when supplied, else name.
BaseOf == IF options.schemaBaseName # Undefined THEN options.schemaBaseName.v ELSE options.name.v

\* The positions of raw that survive: the characters of [A-Za-z0-9] and the
\* first character of each maximal run of other characters.
KeptPositions(raw) ==
    {i \in 1..Len(raw) : IsAlnum(raw[i]) \/ i = 1 \/ IsAlnum(raw[i - 1])}

\* raw with each maximal run of characters outside [A-Za-z0-9] replaced by "_".
RunsReplaced(raw) ==
    LET kept == KeptPositions(raw)
        at(k) == CHOOSE i \in kept : Cardinality({j \in kept : j <= i}) = k
    IN [k \in 1..Cardinality(kept) |-> IF IsAlnum(raw[at(k)]) THEN raw[at(k)] ELSE "_"]

Suffix(slot) ==
    CASE slot = "params" -> <<"P", "a", "r", "a", "m", "s">>
      [] slot = "query" -> <<"Q", "u", "e", "r", "y">>
      [] slot = "body" -> <<"B", "o", "d", "y">>
      [] slot = "headers" -> <<"H", "e", "a", "d", "e", "r", "s">>
      [] slot = "response" -> <<"R", "e", "s", "p", "o", "n", "s", "e">>

\* The reference the returned definition holds for a slot, if any.
ReferenceOf(definition, slot) ==
    IF slot = "response"
    THEN (IF definition.output = Undefined THEN Undefined ELSE Field(definition.output, "body"))
    ELSE (IF definition.input = Undefined THEN Undefined ELSE Field(definition.input, slot))

\* C11: every schema reference name is the sanitized base (each maximal run
\* of non-alphanumeric characters replaced by one "_") followed by Params,
\* Query, Body, Headers or Response; the base is schemaBaseName when
\* supplied, else the route name.
C11_ReferenceNames ==
    Returned =>
        \A slot \in SchemaSlots :
            LET ref == ReferenceOf(result.definition, slot)
            IN ref # Undefined => ref.name = RunsReplaced(BaseOf) \o Suffix(slot)

C11_Witness ==
    /\ Returned
    /\ options.schemaBaseName = Str(<<"g", "e", "t", " ", "a", "c", "c", "o", "u", "n", "t">>)
    /\ options.paramsSchema # Undefined
    /\ result.definition.input.params.name =
           <<"g", "e", "t", "_", "a", "c", "c", "o", "u", "n", "t", "P", "a", "r", "a", "m", "s">>

(***************************************************************************)
(* Response schema extraction: selectResponse has handed fromTsRestRoute a *)
(* response of any shape up to a nesting depth, and extractResponseSchema  *)
(* is applied to it.                                                       *)
(***************************************************************************)
\* How deep body fields nest in a response definition.
MaxNesting == 2

\* The values that are no objects: undefined, the no-body marker, a string
\* and a schema (labelled with the depth left below it).
Atoms(depth) ==
    {Undefined, ContractNoBody, Str(<<"x">>), Zod("nested", NumberToString(depth))}

RECURSIVE ResponseValues(_)
ResponseValues(depth) ==
    IF depth = 0 THEN Atoms(0)
    ELSE LET inner == ResponseValues(depth - 1)
         IN Atoms(depth)
            \cup {EmptyObject, Obj([contentType |-> Str(<<"t">>)])}
            \cup {Obj([body |-> b]) : b \in inner}
            \cup {Obj([contentType |-> Str(<<"t">>), body |-> b]) : b \in inner}

InitExtract ==
    /\ \E code \in StatusUniverse, response \in ResponseValues(MaxNesting) :
           selected = [status |-> Num(code), response |-> response]
    /\ options = Undefined
    /\ result = Undefined
    /\ pc = "selected"
    /\ extracted = Undefined
    /\ walk = Idle
    /\ script = Idle
    /\ heap = <<>>

Extract ==
    /\ pc = "selected"
    /\ extracted' = extractResponseSchema(Field(selected, "response"))
    /\ pc' = "extracted"
    /\ UNCHANGED <<options, selected, result, walk, script, heap>>

NextExtract == Extract

SpecExtract == InitExtract /\ [][NextExtract]_vars

Extracted == pc = "extracted"

\* C13: extractResponseSchema returns no schema for a response that is the
\* no-body marker and for an undefined response.
C13_NoBodyYieldsNoSchema ==
    (Extracted /\ selected.response \in {ContractNoBody, Undefined})
        => extracted = Undefined

C13_Witness ==
    /\ Extracted
    /\ selected.response = ContractNoBody
    /\ extracted = Undefined

IsSchema(value) == value.t = "zod"

HasBodySchema(value) ==
    value.t = "object" /\ "body" \in DOMAIN value.props /\ IsSchema(value.props["body"])

\* C14: extractResponseSchema unwraps body at most one level: the response
\* itself when it is a schema, response.body when that is a schema, and no
\* schema for anything else.
C14_OneLevelUnwrap ==
    Extracted =>
        extracted = (IF IsSchema(selected.response) THEN selected.response
                     ELSE IF HasBodySchema(selected.response) THEN selected.response.props["body"]
                     ELSE Undefined)

(***************************************************************************)
(* Router adaptation (fromTsRestRouter, lines 253-282).                    *)
(*                                                                         *)
(* A router is a graph of nodes; node 1 is the root.  A node is the list   *)
(* of its entries in the order of Object.entries (the keys of the model    *)
(* are no array indices, so that is insertion order).  The value of an     *)
(* entry is a route contract or a reference to a node, which lets a router *)
(* contain itself.  The recursion of visit is the stack of frames in       *)
(* walk.stack; the engine raises a RangeError when it outgrows MaxStack.   *)
(***************************************************************************)
\* The number of entries of a router, over all its nodes.
MaxEntries == 3

\* The depth of the call stack of the engine, in visit frames.
MaxStack == 3

RouterNodes == {1, 2}

KeyList == <<"l", "i", "s", "t">>

KeyDetail == <<"d", "e", "t", "a", "i", "l">>

\* The keys of a router: two names and the empty string.
RouterKeys == {KeyList, KeyDetail, <<>>}

BaseNames == {Undefined, Str(<<>>), Str(<<"a", "c", "c", "o", "u", "n", "t", "s">>)}

CustomName == Str(<<"c", "u", "s", "t", "o", "m">>)

Methods == <<"GET", "POST">>

\* The route contract declared under a key of a node: its method and path
\* tell the leaves apart.
LeafRoute(node, key) ==
    [InitialRoute EXCEPT !.method = Methods[node],
                         !.path = <<"/">> \o key,
                         !.responses = Obj(NumberToString(200) :> Zod("responses", NumberToString(200)))]

RouterRef(node) == [router |-> node]

\* isAppRoute of @ts-rest/core: 'method' in value && 'path' in value.
isAppRoute(value) == "method" \in DOMAIN value /\ "path" \in DOMAIN value

\* What createRoute may return: a handler alone, with a name, with a name
\* property that is undefined, and the latter with a schemaBaseName.
ConfigStyles == {"plain", "named", "nameUndefined", "nameUndefinedWithBase"}

RouteConfig(style) ==
    CASE style = "plain" -> [handler |-> [t |-> "function"]]
      [] style = "named" -> [handler |-> [t |-> "function"], name |-> CustomName]
      [] style = "nameUndefined" -> [handler |-> [t |-> "function"], name |-> Undefined]
      [] style = "nameUndefinedWithBase" ->
             [handler |-> [t |-> "function"], name |-> Undefined,
              schemaBaseName |-> Str(<<"b", "a", "s", "e">>)]

\* array.filter(Boolean) of an array of strings and undefined.
RECURSIVE FilterBoolean(_)
FilterBoolean(items) ==
    IF items = <<>> THEN <<>>
    ELSE IF Head(items) = Undefined \/ Head(items).v = <<>> THEN FilterBoolean(Tail(items))
    ELSE <<Head(items)>> \o FilterBoolean(Tail(items))

\* array.join('.') of an array of strings.
RECURSIVE JoinDot(_)
JoinDot(items) ==
    IF items = <<>> THEN <<>>
    ELSE IF Len(items) = 1 THEN Head(items).v
    ELSE Head(items).v \o <<".">> \o JoinDot(Tail(items))

StrAll(keys) == [i \in 1..Len(keys) |-> Str(keys[i])]

\* Lines 264-265.
routeNameOf(baseName, keyPath, routeConfig) ==
    LET nameSegments == FilterBoolean(<<baseName>> \o FilterBoolean(StrAll(keyPath)))
    IN Coalesce(Field(routeConfig, "name"), Str(JoinDot(nameSegments)))

OptionKeys == DOMAIN InitialOptions(<<>>)

\* { appRoute: value, name: routeName, ...routeConfig }: the own properties
\* of routeConfig come last and win; what is in neither reads as undefined.
mergedOptions(appRoute, routeName, routeConfig) ==
    [k \in OptionKeys |->
        IF k \in DOMAIN routeConfig THEN routeConfig[k]
        ELSE IF k = "appRoute" THEN appRoute
        ELSE IF k = "name" THEN routeName
        ELSE Undefined]

TotalEntries(nodes) ==
    LET RECURSIVE Sum(_)
        Sum(S) == IF S = {} THEN 0
                  ELSE LET n == CHOOSE x \in S : TRUE IN Len(nodes[n]) + Sum(S \ {n})
    IN Sum(RouterNodes)

Referenced(nodes, node) ==
    node = 1 \/ \E n \in RouterNodes :
                    \E i \in 1..Len(nodes[n]) : nodes[n][i].value = RouterRef(node)

InitRouter ==
    /\ \E baseName \in BaseNames :
           walk = [pc |-> "declaring", baseName |-> baseName,
                   nodes |-> [n \in RouterNodes |-> <<>>],
                   stack |-> <<>>, calls |-> <<>>, specs |-> <<>>]
    /\ options = Undefined
    /\ selected = Undefined
    /\ result = Undefined
    /\ pc = "idle"
    /\ extracted = Undefined
    /\ script = Idle
    /\ heap = <<>>

adapterVars == <<options, selected, result, pc, extracted, script, heap>>

\* The caller writes one more entry of the router literal.
DeclareEntry(node, key, value) ==
    /\ walk.pc = "declaring"
    /\ TotalEntries(walk.nodes) < MaxEntries
    /\ Referenced(walk.nodes, node)
    /\ \A i \in 1..Len(walk.nodes[node]) : walk.nodes[node][i].key # key
    /\ walk' = [walk EXCEPT !.nodes[node] = Append(@, [key |-> key, value |-> value])]
    /\ UNCHANGED adapterVars

\* fromTsRestRouter is called: visit(router, []).
CallRouter ==
    /\ walk.pc = "declaring"
    /\ walk' = [walk EXCEPT !.pc = "visiting",
                             !.stack = <<[node |-> 1, index |-> 1, path |-> <<>>]>>]
    /\ UNCHANGED adapterVars

Top == walk.stack[Len(walk.stack)]

AtEntry ==
    /\ walk.pc = "visiting"
    /\ Top.index <= Len(walk.nodes[Top.node])

CurrentEntry == walk.nodes[Top.node][Top.index]

Advance(stack) == [stack EXCEPT ![Len(stack)].index = @ + 1]

\* Lines 261-273: the entry is a route; createRoute answers a configuration.
VisitLeaf(style) ==
    /\ AtEntry
    /\ isAppRoute(CurrentEntry.value)
    /\ LET key == CurrentEntry.key
           keyPath == Top.path \o <<key>>
           routeConfig == RouteConfig(style)
           routeName == routeNameOf(walk.baseName, keyPath, routeConfig)
           spec == fromTsRestRoute(mergedOptions(CurrentEntry.value, routeName, routeConfig))
           call == [key |-> key, keyPath |-> keyPath, appRoute |-> CurrentEntry.value,
                    routeConfig |-> routeConfig]
       IN walk' = IF IsThrow(spec)
                  THEN [walk EXCEPT !.pc = "raised", !.calls = Append(@, call)]
                  ELSE [walk EXCEPT !.calls = Append(@, call),
                                    !.specs = Append(@, spec),
                                    !.stack = Advance(@)]
    /\ UNCHANGED adapterVars

\* Lines 274-276: the entry is a router; visit calls itself.
VisitSubtree ==
    /\ AtEntry
    /\ ~isAppRoute(CurrentEntry.value)
    /\ Len(walk.stack) < MaxStack
    /\ walk' = [walk EXCEPT !.stack =
                    Append(Advance(@), [node |-> CurrentEntry.value.router, index |-> 1,
                                        path |-> Top.path \o <<CurrentEntry.key>>])]
    /\ UNCHANGED adapterVars

\* The recursion outgrows the call stack: RangeError, not caught.
StackOverflow ==
    /\ AtEntry
    /\ ~isAppRoute(CurrentEntry.value)
    /\ Len(walk.stack) >= MaxStack
    /\ walk' = [walk EXCEPT !.pc = "raised"]
    /\ UNCHANGED adapterVars

\* The for loop of a visit is over: it returns to its caller, the outermost
\* one to fromTsRestRouter, which returns specs (lines 280-281).
ReturnFromVisit ==
    /\ walk.pc = "visiting"
    /\ Top.index > Len(walk.nodes[Top.node])
    /\ walk' = [walk EXCEPT !.stack = SubSeq(@, 1, Len(@) - 1),
                             !.pc = IF Len(walk.stack) = 1 THEN "returned" ELSE "visiting"]
    /\ UNCHANGED adapterVars

NextRouter ==
    \/ \E node \in RouterNodes, key \in RouterKeys :
          \/ DeclareEntry(node, key, LeafRoute(node, key))
          \/ \E target \in RouterNodes : DeclareEntry(node, key, RouterRef(target))
    \/ CallRouter
    \/ \E style \in ConfigStyles : VisitLeaf(style)
    \/ VisitSubtree
    \/ StackOverflow
    \/ ReturnFromVisit

SpecRouter == InitRouter /\ [][NextRouter]_vars

(***************************************************************************)
(* Claims about fromTsRestRouter (C15-C19), stated over SpecRouter.        *)
(***************************************************************************)
Walked == walk.pc \in {"returned", "raised"}

RouterSuccessors(node) ==
    {walk.nodes[node][i].value.router :
        i \in {j \in 1..Len(walk.nodes[node]) : ~isAppRoute(walk.nodes[node][j].value)}}

RECURSIVE ReachableFrom(_)
ReachableFrom(S) ==
    LET T == S \cup UNION {RouterSuccessors(n) : n \in S}
    IN IF T = S THEN S ELSE ReachableFrom(T)

\* The router contains itself somewhere below its root.
Cyclic == \E n \in ReachableFrom({1}) : n \in ReachableFrom(RouterSuccessors(n))

\* The leaves of an acyclic router, depth first and in the order of the keys
\* of each level, each with the keys from the root to it.
RECURSIVE LeavesBelow(_, _, _)
LeavesBelow(node, path, i) ==
    IF i > Len(walk.nodes[node]) THEN <<>>
    ELSE LET entry == walk.nodes[node][i]
             here == IF isAppRoute(entry.value)
                     THEN <<[keyPath |-> path \o <<entry.key>>, appRoute |-> entry.value]>>
                     ELSE LeavesBelow(entry.value.router, path \o <<entry.key>>, 1)
         IN here \o LeavesBelow(node, path, i + 1)

Leaves == LeavesBelow(1, <<>>, 1)

\* The default name of a leaf in the words of the specification: baseName
\* when given and non-empty, then every non-empty key, joined by dots.
RECURSIVE Dotted(_)
Dotted(words) ==
    IF words = <<>> THEN <<>>
    ELSE IF Tail(words) = <<>> THEN Head(words)
    ELSE Head(words) \o <<".">> \o Dotted(Tail(words))

NonEmptyWord(word) == word # <<>>

DefaultName(keyPath) ==
    LET base == IF walk.baseName # Undefined /\ walk.baseName.v # <<>>
                THEN <<walk.baseName.v>> ELSE <<>>
    IN Str(Dotted(base \o SelectSeq(keyPath, NonEmptyWord)))

\* C15: once fromTsRestRouter is over on a router tree, createRoute has been
\* called once per leaf, depth first in key order, with the leaf's key and
\* key path, and one RouteSpec per leaf has been returned in that order.
C15_TraversalOrder ==
    (Walked /\ ~Cyclic) =>
        /\ walk.pc = "returned"
        /\ Len(walk.calls) = Len(Leaves)
        /\ Len(walk.specs) = Len(Leaves)
        /\ \A i \in 1..Len(Leaves) :
              /\ walk.calls[i].keyPath = Leaves[i].keyPath
              /\ walk.calls[i].key = Leaves[i].keyPath[Len(Leaves[i].keyPath)]
              /\ walk.calls[i].appRoute = Leaves[i].appRoute
              /\ walk.specs[i].definition.path = Leaves[i].appRoute.path

\* What holds of C15: every call made so far is the leaf of that rank, and a
\* traversal that returns has made them all.
C15_CallsFollowLeaves ==
    (walk.pc \in {"visiting", "returned", "raised"} /\ ~Cyclic) =>
        /\ Len(walk.calls) <= Len(Leaves)
        /\ \A i \in 1..Len(walk.calls) :
              /\ walk.calls[i].keyPath = Leaves[i].keyPath
              /\ walk.calls[i].appRoute = Leaves[i].appRoute
        /\ walk.pc = "returned" =>
              Len(walk.calls) = Len(Leaves) /\ Len(walk.specs) = Len(Leaves)

SuppliesNoName(routeConfig) == Field(routeConfig, "name") = Undefined

\* C16: a leaf for which createRoute supplied no name is emitted under the
\* dot-joined default name.
C16_DefaultName ==
    walk.pc \in {"visiting", "returned", "raised"} =>
        \A i \in 1..Len(walk.specs) :
            SuppliesNoName(walk.calls[i].routeConfig) =>
                walk.specs[i].definition.name = DefaultName(walk.calls[i].keyPath)

\* What holds of C16: the default name, when the configuration has no name
\* property at all.
C16_DefaultNameWithoutProperty ==
    walk.pc \in {"visiting", "returned", "raised"} =>
        \A i \in 1..Len(walk.specs) :
            "name" \notin DOMAIN walk.calls[i].routeConfig =>
                walk.specs[i].definition.name = DefaultName(walk.calls[i].keyPath)

\* C17: the emitted name is the configuration's name when that is defined
\* and the default name otherwise, a name property that is undefined
\* included; method and path are those of the leaf's route contract.
C17_NameOverride ==
    walk.pc \in {"visiting", "returned", "raised"} =>
        \A i \in 1..Len(walk.specs) :
            LET routeConfig == walk.calls[i].routeConfig
                definition == walk.specs[i].definition
            IN /\ definition.name = IF SuppliesNoName(routeConfig)
                                    THEN DefaultName(walk.calls[i].keyPath)
                                    ELSE routeConfig.name
               /\ definition.method = walk.calls[i].appRoute.method
               /\ definition.path = walk.calls[i].appRoute.path

\* C18: on a router tree the traversal ends with every leaf adapted once;
\* on a router that contains itself it returns no result.
C18_TreeWalkCompletes ==
    /\ (Walked /\ ~Cyclic) => (walk.pc = "returned" /\ Len(walk.specs) = Len(Leaves))
    /\ (walk.pc \in {"visiting", "returned", "raised"} /\ Cyclic) => walk.pc # "returned"

\* What holds of C18: a router that contains itself never returns a result.
C18_CyclicNeverReturns ==
    (walk.pc \in {"visiting", "returned", "raised"} /\ Cyclic) => walk.pc # "returned"

\* The invariants of routeDefinitionSchema (index.ts, lines 234-252).
ValidDefinition(definition) ==
    /\ definition.name.t = "string"
    /\ Len(definition.name.v) >= 1
    /\ Field(definition.output, "status") # Undefined =>
          (definition.output.status.v >= 100 /\ definition.output.status.v <= 599)

\* C19: every emitted RouteDefinition has a non-empty name and, when it has
\* a status, one in [100, 599].
C19_DefinitionsValid ==
    walk.pc \in {"visiting", "returned", "raised"} =>
        \A i \in 1..Len(walk.specs) : ValidDefinition(walk.specs[i].definition)

(***************************************************************************)
(* The publish script (scripts/publish.sh), in its two versions: the one   *)
(* with the --no-push option and the older one that asks before pushing.   *)
(* A run is the record in script: the arguments, the state of the git      *)
(* worktree and index against HEAD (tracked files, submodules aside), the  *)
(* position in main, the commands run so far each with its outcome, and    *)
(* the exit status.  Under set -euo pipefail a failing command ends the    *)
(* run with a non-zero status.                                             *)
(***************************************************************************)
\* The number of command-line arguments of a run.
MaxArgs == 3

ScriptVersions == {"noPush", "prompt"}

ArgPatch == <<"p", "a", "t", "c", "h">>

ArgMinor == <<"m", "i", "n", "o", "r">>

ArgMajor == <<"m", "a", "j", "o", "r">>

ArgSemver == <<"1", ".", "2", ".", "3">>

ArgNotSemver == <<"1", ".", "2">>

OptContractVersion == <<"-", "-", "c", "o", "n", "t", "r", "a", "c", "t", "-", "v", "e", "r", "s", "i", "o", "n">>

OptNoPush == <<"-", "-", "n", "o", "-", "p", "u", "s", "h">>

ArgTokens == {ArgPatch, ArgSemver, ArgNotSemver, OptContractVersion, OptNoPush}

ArgLists == UNION {[1..n -> ArgTokens] : n \in 0..MaxArgs}

\* The values of an environment variable or of the reply to the prompt.
EnvValues == {<<>>, <<"1">>, <<"0">>, <<"y">>, <<"Y">>, <<"y", "e", "s">>,
              <<"Y", "E", "S">>, <<"t", "r", "u", "e">>, <<"T", "R", "U", "E">>, <<"n", "o">>}

UpperCased(word) == [i \in 1..Len(word) |-> ToUpperCase(word[i])]

\* =~ ^(patch|minor|major)$
IsBumpKeyword(word) == word \in {ArgPatch, ArgMinor, ArgMajor}

\* =~ ^[0-9]+\.[0-9]+\.[0-9]+$
IsSemver(word) ==
    \E i \in 1..Len(word) : \E j \in 1..Len(word) :
        /\ 1 < i /\ i + 1 < j /\ j < Len(word)
        /\ word[i] = "." /\ word[j] = "."
        /\ \A k \in (1..Len(word)) \ {i, j} : IsDigit(word[k])

\* The test of the environment variable that knows the value 1 only.
IsTruthyEnv_DigitOnly(word) == word = <<"1">>

\* =~ ^([Yy][Ee][Ss]|[Yy]|1|true)$
IsTruthyEnv(word) ==
    \/ UpperCased(word) = <<"Y", "E", "S">>
    \/ UpperCased(word) = <<"Y">>
    \/ word = <<"1">>
    \/ word = <<"t", "r", "u", "e">>

\* =~ ^[Yy](es)?$
IsYesReply(word) ==
    \/ UpperCased(word) = <<"Y">>
    \/ (Len(word) = 3 /\ ToUpperCase(word[1]) = "Y" /\ SubSeq(word, 2, 3) = <<"e", "s">>)

\* The while loop of main over the arguments after the bump.
RECURSIVE parseOptions(_, _, _)
parseOptions(version, args, parsed) ==
    IF args = <<>> THEN parsed
    ELSE IF Head(args) = OptContractVersion
    THEN LET rest == Tail(args)
         IN parseOptions(version,
                         IF rest = <<>> THEN rest ELSE Tail(rest),
                         [parsed EXCEPT !.contract_version =
                              IF rest = <<>> THEN <<>> ELSE Head(rest)])
    ELSE IF Head(args) = OptNoPush /\ version = "noPush"
    THEN parseOptions(version, Tail(args), [parsed EXCEPT !.no_push = TRUE])
    ELSE [parsed EXCEPT !.error = "unknown option"]

\* main up to the call of ensure_clean_git: the error it reports before
\* usage exits with status 1, or the bump and the options.
parseArguments(version, argv) ==
    LET none == [error |-> "none", bump |-> <<>>, contract_version |-> <<>>,
                 no_push |-> FALSE]
    IN IF Len(argv) < 1 THEN [none EXCEPT !.error = "version bump argument missing"]
       ELSE LET parsed == parseOptions(version, Tail(argv), [none EXCEPT !.bump = Head(argv)])
            IN IF parsed.error # "none" THEN parsed
               ELSE IF ~IsBumpKeyword(parsed.bump) /\ ~IsSemver(parsed.bump)
               THEN [parsed EXCEPT !.error = "invalid bump"]
               ELSE parsed

\* ensure_clean_git without its second check, of the index.
ensure_clean_git_WorktreeOnly(worktreeChanged, indexChanged) ==
    IF worktreeChanged THEN "git worktree has uncommitted changes" ELSE "none"

\* The message ensure_clean_git exits with, or "none".
ensure_clean_git(worktreeChanged, indexChanged) ==
    IF worktreeChanged THEN "git worktree has uncommitted changes"
    ELSE IF indexChanged THEN "git index has staged changes"
    ELSE "none"

InitScript ==
    /\ \E version \in ScriptVersions, argv \in ArgLists,
          worktreeChanged \in BOOLEAN, indexChanged \in BOOLEAN :
           script = [pc |-> "main", version |-> version, argv |-> argv,
                     worktreeChanged |-> worktreeChanged, indexChanged |-> indexChanged,
                     bump |-> <<>>, contract_version |-> <<>>, no_push |-> FALSE,
                     PUBLISH_NO_PUSH |-> <<>>,
                     ran |-> <<>>, error |-> "none", status |-> 0]
    /\ options = Undefined
    /\ selected = Undefined
    /\ result = Undefined
    /\ pc = "idle"
    /\ extracted = Undefined
    /\ walk = Idle
    /\ heap = <<>>

scriptFrame == <<options, selected, result, pc, extracted, walk, heap>>

Exit(run, error, status) == [run EXCEPT !.pc = "exited", !.error = error, !.status = status]

\* A command of a script without set -e: the run goes on when it fails.
Run_NoErrexit(command, ok, next) ==
    [script EXCEPT !.ran = Append(@, [command |-> command, ok |-> ok]), !.pc = next]

\* A command of the script: it is recorded with its outcome; when it fails
\* the shell exits with its status.
Run(command, ok, next) ==
    LET run == [script EXCEPT !.ran = Append(@, [command |-> command, ok |-> ok])]
    IN IF ok THEN [run EXCEPT !.pc = next] ELSE Exit(run, command, 1)

\* main, from its first line to the bump check.
ParseArguments ==
    /\ script.pc = "main"
    /\ LET parsed == parseArguments(script.version, script.argv)
       IN script' = IF parsed.error # "none" THEN Exit(script, parsed.error, 1)
                    ELSE [script EXCEPT !.pc = "ensure_clean_git",
                                        !.bump = parsed.bump,
                                        !.contract_version = parsed.contract_version,
                                        !.no_push = parsed.no_push]
    /\ UNCHANGED scriptFrame

EnsureCleanGit ==
    /\ script.pc = "ensure_clean_git"
    /\ LET error == ensure_clean_git(script.worktreeChanged, script.indexChanged)
       IN script' = IF error # "none" THEN Exit(script, error, 1)
                    ELSE [script EXCEPT !.pc = "npm version"]
    /\ UNCHANGED scriptFrame

NpmVersion(ok) ==
    /\ script.pc = "npm version"
    /\ script' = Run("npm version", ok, "update_contract_version")
    /\ UNCHANGED scriptFrame

\* The if around update_contract_version and the function itself.
UpdateContractVersion(fileExists, ok) ==
    /\ script.pc = "update_contract_version"
    /\ script' = IF script.contract_version = <<>>
                  THEN [script EXCEPT !.pc = "npm run build"]
                  ELSE IF ~IsSemver(script.contract_version)
                  THEN Exit(script, "invalid contract version", 1)
                  ELSE IF ~fileExists
                  THEN Exit(script, "cannot find src/index.ts", 1)
                  ELSE Run("sed CONTRACT_VERSION", ok, "npm run build")
    /\ UNCHANGED scriptFrame

NpmRunBuild(ok) ==
    /\ script.pc = "npm run build"
    /\ script' = Run("npm run build", ok, "npm run test")
    /\ UNCHANGED scriptFrame

NpmRunTest(ok) ==
    /\ script.pc = "npm run test"
    /\ script' = Run("npm run test", ok, "push?")
    /\ UNCHANGED scriptFrame

\* The version with --no-push: push unless told not to.
DecidePushByDefault(PUBLISH_NO_PUSH) ==
    /\ script.pc = "push?"
    /\ script.version = "noPush"
    /\ LET run == [script EXCEPT !.PUBLISH_NO_PUSH = PUBLISH_NO_PUSH]
       IN script' = IF script.no_push \/ IsTruthyEnv(PUBLISH_NO_PUSH)
                    THEN Exit(run, "none", 0)
                    ELSE [run EXCEPT !.pc = "git push"]
    /\ UNCHANGED scriptFrame

\* The older version: in CI or without a terminal push when PUBLISH_AUTO_PUSH
\* says so, otherwise ask.
DecidePushByPrompt(interactive, PUBLISH_AUTO_PUSH, reply) ==
    /\ script.pc = "push?"
    /\ script.version = "prompt"
    /\ script' = IF (IF interactive THEN IsYesReply(reply) ELSE IsTruthyEnv(PUBLISH_AUTO_PUSH))
                  THEN [script EXCEPT !.pc = "git push"]
                  ELSE Exit(script, "none", 0)
    /\ UNCHANGED scriptFrame

GitPush(ok) ==
    /\ script.pc = "git push"
    /\ script' = Run("git push", ok, "git push --tags")
    /\ UNCHANGED scriptFrame

GitPushTags(ok) ==
    /\ script.pc = "git push --tags"
    /\ script' = LET run == Run("git push --tags", ok, "exited")
                  IN IF ok THEN Exit(run, "none", 0) ELSE run
    /\ UNCHANGED scriptFrame

NextScript ==
    \/ ParseArguments
    \/ EnsureCleanGit
    \/ \E ok \in BOOLEAN : NpmVersion(ok)
    \/ \E fileExists \in BOOLEAN, ok \in BOOLEAN : UpdateContractVersion(fileExists, ok)
    \/ \E ok \in BOOLEAN : NpmRunBuild(ok)
    \/ \E ok \in BOOLEAN : NpmRunTest(ok)
    \/ \E value \in EnvValues : DecidePushByDefault(value)
    \/ \E interactive \in BOOLEAN, value \in EnvValues, reply \in EnvValues :
          DecidePushByPrompt(interactive, value, reply)
    \/ \E ok \in BOOLEAN : GitPush(ok)
    \/ \E ok \in BOOLEAN : GitPushTags(ok)

SpecScript == InitScript /\ [][NextScript]_vars

(***************************************************************************)
(* Claims about the publish script, stated over SpecScript.                *)
(***************************************************************************)
IsScriptRun == "argv" \in DOMAIN script

Unclean == script.worktreeChanged \/ script.indexChanged

\* C20: with uncommitted changes in the worktree or staged changes in the
\* index, the script runs none of npm version, the CONTRACT_VERSION edit,
\* build, test and git push, and where it ends it ends with an error.
C20_CleanWorktreeRequired ==
    (IsScriptRun /\ Unclean) =>
        /\ script.ran = <<>>
        /\ script.pc \in {"main", "ensure_clean_git", "exited"}
        /\ script.pc = "exited" => script.status # 0

\* A run with valid arguments and staged changes only has been stopped by
\* ensure_clean_git.
C20_Witness ==
    /\ IsScriptRun
    /\ script.indexChanged /\ ~script.worktreeChanged
    /\ script.pc = "exited"
    /\ script.error = "git index has staged changes"
    /\ script.status = 1
    /\ script.ran = <<>>

Ran(command) == \E i \in 1..Len(script.ran) : script.ran[i].command = command

Succeeded(command) ==
    \E i \in 1..Len(script.ran) : script.ran[i].command = command /\ script.ran[i].ok

\* The run is past the decision about pushing.
Decided == Succeeded("npm run test") /\ script.pc # "push?"

\* The values the usage text and the claim call truthy.
NamedTruthy == {<<"y", "e", "s">>, <<"y">>, <<"1">>, <<"t", "r", "u", "e">>}

\* C21: in the version with --no-push, past build and test, a run without
\* --no-push and without PUBLISH_NO_PUSH runs git push and, once that has
\* succeeded, git push --tags, and ends successfully only after both; with
\* --no-push or a truthy PUBLISH_NO_PUSH it runs neither and ends with
\* status 0.
C21_PushByDefault ==
    (IsScriptRun /\ script.version = "noPush" /\ Decided) =>
        /\ (script.no_push \/ script.PUBLISH_NO_PUSH \in NamedTruthy) =>
              /\ ~Ran("git push") /\ ~Ran("git push --tags")
              /\ script.pc = "exited" /\ script.status = 0
        /\ (~script.no_push /\ script.PUBLISH_NO_PUSH = <<>>) =>
              /\ script.pc \in {"git push", "git push --tags", "exited"}
              /\ script.pc # "git push" => Ran("git push")
              /\ (script.pc = "exited" /\ Succeeded("git push")) => Ran("git push --tags")
              /\ (script.pc = "exited" /\ script.status = 0) =>
                    Succeeded("git push") /\ Succeeded("git push --tags")

\* A run told by PUBLISH_NO_PUSH=yes not to push has ended successfully
\* after the tests.
C21_Witness ==
    /\ IsScriptRun /\ script.version = "noPush" /\ Decided
    /\ ~script.no_push /\ script.PUBLISH_NO_PUSH = <<"y", "e", "s">>
    /\ script.pc = "exited" /\ script.status = 0
    /\ ~Ran("git push")

\* A run that pushes by default has pushed the commit and the tags.
C21_PushedWitness ==
    /\ IsScriptRun /\ script.version = "noPush"
    /\ ~script.no_push /\ script.PUBLISH_NO_PUSH = <<>>
    /\ script.pc = "exited" /\ script.status = 0
    /\ Succeeded("git push") /\ Succeeded("git push --tags")

(***************************************************************************)
(* fromTsRestRoute on the heap.  Arrays and the response map are cells of  *)
(* heap, and values refer to them by address: Object.keys, map and the     *)
(* spread [...array] allocate a new cell, sort writes the cell it is       *)
(* called on.  The caller owns the cells that exist before the call.       *)
(***************************************************************************)
\* The number of items of the caller's tags and errors arrays.
MaxItems == 2

\* The number of statuses of the caller's response map.
MaxResponses == 2

Ref(at) == [t |-> "ref", at |-> at]

IsRef(value) == value.t = "ref"

ArrayCell(items) == [t |-> "array", items |-> items]

\* The value at the end of a reference; other values are themselves.
Load(h, value) == IF IsRef(value) THEN h[value.at] ELSE value

allocate(h, cell) == [heap |-> Append(h, cell), ref |-> Ref(Len(h) + 1)]

\* Object.keys(route.responses): a new array.
objectKeysOf(h, ref) == allocate(h, ArrayCell(ObjectKeys(h[ref.at])))

\* keys.map((status) => Number.parseInt(status, 10)): a new array.
mapParseInt(h, ref) ==
    allocate(h, ArrayCell([i \in 1..Len(h[ref.at].items) |-> ParseInt(h[ref.at].items[i])]))

\* statusCodes.sort((a, b) => a - b): sorts the array itself and returns it.
sortInPlace(h, ref) ==
    [heap |-> [h EXCEPT ![ref.at] = ArrayCell(SortNumbers(h[ref.at].items))], ref |-> ref]

\* [...array] that hands out the array itself.
spreadArray_Alias(h, ref) == [heap |-> h, ref |-> ref]

\* [...array]: a new array with the same items.
spreadArray(h, ref) == allocate(h, ArrayCell(h[ref.at].items))

\* isNonEmpty(array) ? [...array] : undefined
copyIfNonEmpty(h, value) ==
    IF isNonEmpty(Load(h, value)) THEN spreadArray(h, value)
    ELSE [heap |-> h, ref |-> Undefined]

\* The options as fromTsRestRoute reads them through the references.
Loaded(h, opts) ==
    [opts EXCEPT !.tags = Load(h, opts.tags),
                 !.errors = Load(h, opts.errors),
                 !.appRoute.responses = Load(h, opts.appRoute.responses)]

TagItems == {"billing", "internal"}

ErrorItems == {[code |-> "not_found", status |-> 404], [code |-> "conflict", status |-> 409]}

ItemLists(items) == UNION {[1..n -> items] : n \in 0..MaxItems}

ResponseMaps ==
    {[key \in {NumberToString(code) : code \in codes} |-> Zod("responses", key)] :
        codes \in {S \in SUBSET StatusUniverse : Cardinality(S) <= MaxResponses}}

\* The caller's cells: 1 the response map, 2 the tags, 3 the errors.
InitHeap ==
    /\ \E responses \in ResponseMaps, tags \in ItemLists(TagItems),
          errors \in ItemLists(ErrorItems), name \in Names,
          withTags \in BOOLEAN, withErrors \in BOOLEAN :
           /\ (~withTags => tags = <<>>) /\ (~withErrors => errors = <<>>)
           /\ heap = <<Obj(responses), ArrayCell(tags), ArrayCell(errors)>>
           /\ options = [InitialOptions(name) EXCEPT
                             !.appRoute.responses = Ref(1),
                             !.tags = IF withTags THEN Ref(2) ELSE Undefined,
                             !.errors = IF withErrors THEN Ref(3) ELSE Undefined]
    /\ selected = Undefined
    /\ result = Undefined
    /\ pc = "declaring"
    /\ extracted = Undefined
    /\ walk = Idle
    /\ script = Idle

\* The call of fromTsRestRoute with what it allocates and writes: the arrays
\* of selectResponse (lines 120-125), then the copies of tags and errors
\* (lines 224 and 239).
AdaptOnHeap ==
    /\ pc = "declaring"
    /\ heap # <<>>
    /\ LET keys == objectKeysOf(heap, options.appRoute.responses)
           statusCodes == mapParseInt(keys.heap, keys.ref)
           ordered == IF Len(statusCodes.heap[statusCodes.ref.at].items) = 0 THEN statusCodes
                      ELSE sortInPlace(statusCodes.heap, statusCodes.ref)
           tags == copyIfNonEmpty(ordered.heap, options.tags)
           errors == copyIfNonEmpty(tags.heap, options.errors)
           spec == fromTsRestRoute(Loaded(heap, options))
       IN /\ heap' = errors.heap
          /\ selected' = selectResponse(Loaded(heap, options).appRoute, options.successStatus)
          /\ result' = [spec EXCEPT !.definition.tags = tags.ref,
                                    !.definition.errors = errors.ref]
          /\ extracted' = extractResponseSchema(Field(selected', "response"))
          /\ pc' = "returned"
    /\ UNCHANGED <<options, walk, script>>

NextHeap == AdaptOnHeap

SpecHeap == InitHeap /\ [][NextHeap]_vars

\* The array of the definition is a copy of the caller's when that has
\* items, and is left out otherwise.
FreshCopy(field) ==
    IF options[field] # Undefined /\ Len(heap[options[field].at].items) > 0
    THEN /\ IsRef(result'.definition[field])
         /\ result'.definition[field].at > Len(heap)
         /\ heap'[result'.definition[field].at] = heap[options[field].at]
    ELSE result'.definition[field] = Undefined

\* C22: the call of fromTsRestRoute leaves the options, the route contract
\* and every cell of the caller (the response map, the tags, the errors) as
\* they were; the tags and errors of the definition are new arrays with the
\* caller's items, present only when the caller's array has items.
C22_InputsUnchanged ==
    [][(pc = "declaring" /\ pc' = "returned" /\ heap # <<>>) =>
          /\ options' = options
          /\ Len(heap') >= Len(heap)
          /\ \A at \in 1..Len(heap) : heap'[at] = heap[at]
          /\ FreshCopy("tags") /\ FreshCopy("errors")
          /\ result'.definition.tags # Undefined =>
                result'.definition.tags # result'.definition.errors]_vars

\* A call with two responses, tags and errors has returned copies of both
\* arrays.
C22_Witness ==
    /\ pc = "returned" /\ heap # <<>>
    /\ Cardinality(DOMAIN heap[1].props) = 2
    /\ IsRef(options.tags) /\ IsRef(options.errors)
    /\ IsRef(result.definition.tags) /\ IsRef(result.definition.errors)
    /\ result.definition.tags.at > 3 /\ result.definition.errors.at > 3
    /\ heap[result.definition.tags.at] = heap[2] /\ Len(heap[2].items) = MaxItems
    /\ heap[result.definition.errors.at] = heap[3]

\* The traversal of fromTsRestRouter leaves the router as it was.
C22_RouterUnchanged ==
    [][("nodes" \in DOMAIN walk /\ walk.pc # "declaring") =>
          (walk'.nodes = walk.nodes /\ walk'.baseName = walk.baseName)]_vars

(***************************************************************************)
(* Agreement of definition and schemas (C23), stated over Spec.            *)
(***************************************************************************)
\* The slots for which the returned definition holds a reference.
ReferencedSlots == {slot \in SchemaSlots : ReferenceOf(result.definition, slot) # Undefined}

\* C23: in a returned RouteSpec an input slot has a reference exactly when
\* schemas has a schema for it; every reference has kind 'zod', a name and
\* no source; the names of the references are pairwise distinct.
C23_DefinitionMatchesSchemas ==
    Returned =>
        /\ \A slot \in InputSlots :
              (ReferenceOf(result.definition, slot) # Undefined)
                  <=> (Field(result.schemas, slot) # Undefined)
        /\ \A slot \in ReferencedSlots :
              LET ref == ReferenceOf(result.definition, slot)
              IN DOMAIN ref = {"kind", "name"} /\ ref.kind = "zod"
        /\ \A one \in ReferencedSlots : \A other \in ReferencedSlots \ {one} :
              ReferenceOf(result.definition, one).name
                  # ReferenceOf(result.definition, other).name

\* A returned RouteSpec with references for two input slots and the
\* response, and with an input slot that has neither schema nor reference.
C23_Witness ==
    /\ Returned
    /\ Cardinality(ReferencedSlots \cap InputSlots) = 2
    /\ "response" \in ReferencedSlots
    /\ \E slot \in InputSlots : Field(result.schemas, slot) = Undefined

(***************************************************************************)
(* Uniqueness of the default names (C24), stated over SpecRouter.          *)
(***************************************************************************)
ReferenceNames(definition) ==
    {ReferenceOf(definition, slot).name :
        slot \in {slot \in SchemaSlots : ReferenceOf(definition, slot) # Undefined}}

\* The createRoute call of this rank returned a configuration without any
\* name property.
WithoutNameProperty(i) == "name" \notin DOMAIN walk.calls[i].routeConfig

\* C24: two leaves with different key paths for which createRoute returned
\* no name are emitted under different names and with disjoint schema
\* reference names.
C24_DefaultNamesDistinct ==
    walk.pc \in {"visiting", "returned", "raised"} =>
        \A i \in 1..Len(walk.specs) : \A j \in 1..Len(walk.specs) :
            (/\ WithoutNameProperty(i) /\ WithoutNameProperty(j)
             /\ walk.calls[i].keyPath # walk.calls[j].keyPath) =>
                /\ walk.specs[i].definition.name # walk.specs[j].definition.name
                /\ ReferenceNames(walk.specs[i].definition)
                      \cap ReferenceNames(walk.specs[j].definition) = {}

\* The same for the routers that are trees and have returned.
C24_DistinctOnTrees ==
    (walk.pc = "returned" /\ ~Cyclic) => C24_DefaultNamesDistinct

(***************************************************************************)
(* Order of the steps of the publish script (C25), stated over SpecScript. *)
(***************************************************************************)
\* The command succeeded at a rank below the given one.
SucceededBefore(command, rank) ==
    \E i \in 1..(rank - 1) : script.ran[i].command = command /\ script.ran[i].ok

Failed(command) ==
    \E i \in 1..Len(script.ran) : script.ran[i].command = command /\ ~script.ran[i].ok

\* C25: in both versions git push runs only after npm version, npm run
\* build and npm run test have succeeded in that order; when one of these
\* fails the script ends with an error and without a push; git push --tags
\* runs only after git push has succeeded.
C25_PushAfterSteps ==
    IsScriptRun =>
        /\ \A p \in 1..Len(script.ran) :
              script.ran[p].command \in {"git push", "git push --tags"} =>
                  \E t \in 1..(p - 1) :
                      /\ script.ran[t].command = "npm run test" /\ script.ran[t].ok
                      /\ \E b \in 1..(t - 1) :
                            /\ script.ran[b].command = "npm run build" /\ script.ran[b].ok
                            /\ SucceededBefore("npm version", b)
        /\ \A step \in {"npm version", "npm run build", "npm run test"} :
              Failed(step) =>
                  /\ script.pc = "exited" /\ script.status # 0
                  /\ ~Ran("git push") /\ ~Ran("git push --tags")
        /\ \A p \in 1..Len(script.ran) :
              script.ran[p].command = "git push --tags" => SucceededBefore("git push", p)

\* A run of the older version has pushed commit and tags after the three
\* steps.
C25_Witness ==
    /\ IsScriptRun /\ script.version = "prompt"
    /\ script.pc = "exited" /\ script.status = 0
    /\ Succeeded("npm version") /\ Succeeded("npm run build") /\ Succeeded("npm run test")
    /\ Succeeded("git push") /\ Succeeded("git push --tags")

\* A run whose build failed has ended with an error.
C25_FailureWitness ==
    /\ IsScriptRun /\ Failed("npm run build")
    /\ script.pc = "exited" /\ script.status # 0

(***************************************************************************)
(* Argument errors of the publish script (C26), stated over SpecScript.    *)
(***************************************************************************)
ArgumentErrors == {"version bump argument missing", "unknown option", "invalid bump",
                   "invalid contract version"}

\* C26: a run that has ended with an error about its arguments has run none
\* of npm version, the CONTRACT_VERSION edit, build, test and git push.
C26_ArgumentErrorsRunNothing ==
    (IsScriptRun /\ script.pc = "exited" /\ script.status # 0
        /\ script.error \in ArgumentErrors) => script.ran = <<>>

\* What holds of C26: the errors found before ensure_clean_git leave
\* nothing run.
C26_EarlyErrorsRunNothing ==
    (IsScriptRun /\ script.pc = "exited" /\ script.status # 0
        /\ script.error \in ArgumentErrors \ {"invalid contract version"}) =>
            script.ran = <<>>

====
